---- MODULE Spec2Model ----
(***************************************************************************)
(* A model of package concpool (src/concpool/pool.go): a pool that runs at *)
(* most maxCount tasks at a time.  The contexts are the goroutine calling  *)
(* Wait (the collector), a goroutine feeding the pool through Run, and one *)
(* worker goroutine per admitted task, whose body may call Run too.  Every *)
(* critical section of p.mu is taken in two steps (Lock, then the section  *)
(* up to its Unlock; checkQueue's loop takes one step per pass), every     *)
(* channel operation is one step, and a select that finds several channels *)
(* ready picks any of them.                                                *)
(***************************************************************************)
EXTENDS Integers, Sequences, FiniteSets

\* Bounds of the model.
MaxTasks == 2
MaxArg == 2

\* Capacities of the three channels made by New.
ResultsCap == 1
TerminationCap == 1
RunCheckCap == 1

Tasks == 1..MaxTasks
Args == (0 - 1)..MaxArg
NoErr == "nil"
Errors == {"E1"}
Free == <<"none", 0>>
Collector == <<"wait", 0>>
Runner(t) == <<"run", t>>
Worker(t) == <<"worker", t>>
External == 0
NoEntry == [queue |-> <<>>, running |-> 0, started |-> 0]

VARIABLES
    arg,                \* the argument New was called with
    maxCount,           \* p.maxCount
    queue,              \* p.queue
    running,            \* p.running
    results,            \* p.results (buffer of the channel)
    terminated,         \* p.terminated
    terminationChannel, \* p.terminationChannel (buffer)
    runCheckChannel,    \* p.runCheckChannel (buffer)
    mu,                 \* holder of p.mu
    wpc,                \* position of the goroutine calling Wait
    available,          \* checkQueue's local available
    i,                  \* checkQueue's loop counter
    waitResults,        \* Wait's local results
    tpc,                \* position of each task's worker goroutine
    ret,                \* what each task's body returns: nil or an error
    rpc,                \* position of each task's Run call
    rcaller,            \* who called Run for the task: External or a task
    nextId,             \* next task to be handed to Run
    submitted,          \* history: tasks in the order pushToQueue appended them
    started,            \* history: tasks in the order checkQueue started them
    preWait,            \* history: tasks appended before Wait was called
    late,               \* history: a Run call was not finished before Wait
    termFired,          \* history: times attemptTermination passed its guard
    sent,               \* history: tasks in the order their outcome was sent
    seenQueued,         \* history: tasks that were queued when a failing
                        \* body returned and have not completed since
    cqEntry             \* history: queue, running and number of started
                        \* tasks when the checkQueue in progress took the lock

poolVars == <<arg, maxCount, queue, running, results, terminated,
              terminationChannel, runCheckChannel, mu>>
waitVars == <<wpc, available, i, waitResults>>
taskVars == <<tpc, ret, rpc, rcaller, nextId>>
histVars == <<submitted, started, preWait, late, termFired, sent, seenQueued,
              cqEntry>>
vars == <<poolVars, waitVars, taskVars, histVars>>

----------------------------------------------------------------------------
\* Pure parts of the code.

New_NoClamp(n) == n

\* New: maxCount <= 0 becomes 1.
New(n) == IF n <= 0 THEN 1 ELSE n

PushBack_Front(q, t) == <<t>> \o q

\* pushToQueue: append(p.queue, task).
PushBack(q, t) == Append(q, t)

Available_IgnoresRunning(max, run) == max

\* checkQueue: available := p.maxCount - p.running.
Available(max, run) == max - run

NoneRunning_Always(run) == TRUE

\* checkQueue: the test p.running == 0 made when the queue is empty.
NoneRunning(run) == run = 0

Outcome_AlwaysSuccess(t, err) == [Success |-> TRUE, Err |-> err, task |-> t]

\* The worker's TaskResult for the err its task returned; task is a
\* history field telling whose outcome it is.
Outcome(t, err) ==
    IF err # NoErr
    THEN [Success |-> FALSE, Err |-> err, task |-> t]
    ELSE [Success |-> TRUE, Err |-> NoErr, task |-> t]

\* select { case ch <- true: default: } on a channel of capacity cap.
TrySend(ch, cap) == IF Len(ch) < cap THEN Append(ch, TRUE) ELSE ch

Collect_Front(list, r) == <<r>> \o list

Collect_KeepLast(list, r) == <<r>>

\* Wait: results = append(results, r).
Collect(list, r) == Append(list, r)

AttemptCheck_Blocking ==
    /\ Len(runCheckChannel) < RunCheckCap
    /\ runCheckChannel' = Append(runCheckChannel, TRUE)

\* attemptCheck: non-blocking send on runCheckChannel.
AttemptCheck == runCheckChannel' = TrySend(runCheckChannel, RunCheckCap)

----------------------------------------------------------------------------
Init ==
    /\ arg \in Args
    /\ maxCount = New(arg)
    /\ queue = <<>>
    /\ running = 0
    /\ results = <<>>
    /\ terminated = FALSE
    /\ terminationChannel = <<>>
    /\ runCheckChannel = <<>>
    /\ mu = Free
    /\ wpc = "idle"
    /\ available = 0
    /\ i = 0
    /\ waitResults = <<>>
    /\ tpc = [t \in Tasks |-> "none"]
    /\ ret \in [Tasks -> {NoErr} \cup Errors]
    /\ rpc = [t \in Tasks |-> "idle"]
    /\ rcaller = [t \in Tasks |-> External]
    /\ nextId = 1
    /\ submitted = <<>>
    /\ started = <<>>
    /\ preWait = {}
    /\ late = FALSE
    /\ termFired = 0
    /\ sent = <<>>
    /\ seenQueued = {}
    /\ cqEntry = NoEntry

----------------------------------------------------------------------------
\* Run, called by the goroutine that feeds the pool (it runs beside the one
\* calling Wait) or from inside a task body.  A caller is inside one Run call
\* at a time.

RunCall(c) ==
    /\ nextId <= MaxTasks
    /\ \/ /\ c = External
          /\ \A t \in Tasks : rcaller[t] = External => rpc[t] \in {"idle", "done"}
       \/ /\ c \in Tasks
          /\ tpc[c] = "body"
          /\ \A t \in Tasks : rcaller[t] = c => rpc[t] \in {"idle", "done"}
    /\ rpc' = [rpc EXCEPT ![nextId] = "lock"]
    /\ rcaller' = [rcaller EXCEPT ![nextId] = c]
    /\ nextId' = nextId + 1
    /\ late' = (late \/ wpc # "idle")
    /\ UNCHANGED <<poolVars, waitVars, tpc, ret, submitted, started, preWait,
                   termFired, sent, seenQueued, cqEntry>>

\* pushToQueue: p.mu.Lock()
RunLock(t) ==
    /\ rpc[t] = "lock"
    /\ mu = Free
    /\ mu' = Runner(t)
    /\ rpc' = [rpc EXCEPT ![t] = "push"]
    /\ UNCHANGED <<arg, maxCount, queue, running, results, terminated,
                   terminationChannel, runCheckChannel, waitVars, tpc, ret,
                   rcaller, nextId, histVars>>

\* pushToQueue: append; p.mu.Unlock()
RunPush(t) ==
    /\ rpc[t] = "push"
    /\ queue' = PushBack(queue, t)
    /\ submitted' = Append(submitted, t)
    /\ mu' = Free
    /\ rpc' = [rpc EXCEPT ![t] = "check"]
    /\ UNCHANGED <<arg, maxCount, running, results, terminated,
                   terminationChannel, runCheckChannel, waitVars, tpc, ret,
                   rcaller, nextId, started, preWait, late, termFired, sent,
                   seenQueued, cqEntry>>

RunCheck_StartsTask(t) ==
    /\ rpc[t] = "check"
    /\ AttemptCheck
    /\ rpc' = [rpc EXCEPT ![t] = "done"]
    /\ IF mu = Free /\ running < maxCount /\ Len(queue) # 0
       THEN /\ queue' = Tail(queue)
            /\ running' = running + 1
            /\ tpc' = [tpc EXCEPT ![Head(queue)] = "body"]
            /\ started' = Append(started, Head(queue))
       ELSE UNCHANGED <<queue, running, tpc, started>>
    /\ UNCHANGED <<arg, maxCount, results, terminated, terminationChannel, mu,
                   waitVars, ret, rcaller, nextId, submitted, preWait, late,
                   termFired, sent, seenQueued, cqEntry>>

\* Run: p.attemptCheck(), then return
RunCheck(t) ==
    /\ rpc[t] = "check"
    /\ AttemptCheck
    /\ rpc' = [rpc EXCEPT ![t] = "done"]
    /\ UNCHANGED <<arg, maxCount, queue, running, results, terminated,
                   terminationChannel, mu, waitVars, tpc, ret, rcaller,
                   nextId, histVars>>

----------------------------------------------------------------------------
\* The worker goroutine checkQueue starts for task t.

\* err := t(): the body returns; a body that called Run returns after that
\* call has.
BodyReturn(t) ==
    /\ tpc[t] = "body"
    /\ \A u \in Tasks : rcaller[u] = t => rpc[u] \in {"idle", "done"}
    /\ tpc' = [tpc EXCEPT ![t] = "send"]
    /\ seenQueued' = IF ret[t] # NoErr
                     THEN seenQueued \cup {queue[k] : k \in 1..Len(queue)}
                     ELSE seenQueued
    /\ UNCHANGED <<poolVars, waitVars, ret, rpc, rcaller, nextId, submitted,
                   started, preWait, late, termFired, sent, cqEntry>>

\* p.results <- TaskResult{...}: blocks while the buffer is full
WorkerSend(t) ==
    /\ tpc[t] = "send"
    /\ Len(results) < ResultsCap
    /\ results' = Append(results, Outcome(t, ret[t]))
    /\ tpc' = [tpc EXCEPT ![t] = "lock"]
    /\ sent' = Append(sent, t)
    /\ UNCHANGED <<arg, maxCount, queue, running, terminated,
                   terminationChannel, runCheckChannel, mu, waitVars, ret,
                   rpc, rcaller, nextId, submitted, started, preWait, late,
                   termFired, seenQueued, cqEntry>>

\* p.mu.Lock()
WorkerLock(t) ==
    /\ tpc[t] = "lock"
    /\ mu = Free
    /\ mu' = Worker(t)
    /\ tpc' = [tpc EXCEPT ![t] = "dec"]
    /\ UNCHANGED <<arg, maxCount, queue, running, results, terminated,
                   terminationChannel, runCheckChannel, waitVars, ret, rpc,
                   rcaller, nextId, histVars>>

WorkerDec_ErrorKeepsRunning(t) ==
    /\ tpc[t] = "dec"
    /\ running' = IF ret[t] # NoErr THEN running ELSE running - 1
    /\ mu' = Free
    /\ tpc' = [tpc EXCEPT ![t] = "check"]
    /\ seenQueued' = seenQueued \ {t}
    /\ UNCHANGED <<arg, maxCount, queue, results, terminated,
                   terminationChannel, runCheckChannel, waitVars, ret, rpc,
                   rcaller, nextId, submitted, started, preWait, late,
                   termFired, sent, cqEntry>>

WorkerDec_NoUnlock(t) ==
    /\ tpc[t] = "dec"
    /\ running' = running - 1
    /\ tpc' = [tpc EXCEPT ![t] = "check"]
    /\ seenQueued' = seenQueued \ {t}
    /\ UNCHANGED <<arg, maxCount, queue, results, terminated,
                   terminationChannel, runCheckChannel, mu, waitVars, ret, rpc,
                   rcaller, nextId, submitted, started, preWait, late,
                   termFired, sent, cqEntry>>

\* p.running--; p.mu.Unlock()
WorkerDec(t) ==
    /\ tpc[t] = "dec"
    /\ running' = running - 1
    /\ mu' = Free
    /\ tpc' = [tpc EXCEPT ![t] = "check"]
    /\ seenQueued' = seenQueued \ {t}
    /\ UNCHANGED <<arg, maxCount, queue, results, terminated,
                   terminationChannel, runCheckChannel, waitVars, ret, rpc,
                   rcaller, nextId, submitted, started, preWait, late,
                   termFired, sent, cqEntry>>

WorkerCheck_NoSignal(t) ==
    /\ tpc[t] = "check"
    /\ tpc' = [tpc EXCEPT ![t] = "done"]
    /\ UNCHANGED <<poolVars, waitVars, ret, rpc, rcaller, nextId, histVars>>

\* p.attemptCheck(); the goroutine ends
WorkerCheck(t) ==
    /\ tpc[t] = "check"
    /\ AttemptCheck
    /\ tpc' = [tpc EXCEPT ![t] = "done"]
    /\ UNCHANGED <<arg, maxCount, queue, running, results, terminated,
                   terminationChannel, mu, waitVars, ret, rpc, rcaller,
                   nextId, histVars>>

----------------------------------------------------------------------------
\* Wait and the functions it calls: checkQueue and attemptTermination.

\* Wait is called; it first calls checkQueue.
WaitCall ==
    /\ wpc = "idle"
    /\ wpc' = "cq_lock"
    /\ preWait' = {submitted[k] : k \in 1..Len(submitted)}
    /\ late' = (\E t \in Tasks : rpc[t] \notin {"idle", "done"})
    /\ UNCHANGED <<poolVars, available, i, waitResults, taskVars, submitted,
                   started, termFired, sent, seenQueued, cqEntry>>

\* checkQueue: p.mu.Lock()
CheckQueueLock ==
    /\ wpc = "cq_lock"
    /\ mu = Free
    /\ mu' = Collector
    /\ wpc' = "cq_head"
    /\ cqEntry' = [queue |-> queue, running |-> running,
                   started |-> Len(started)]
    /\ UNCHANGED <<arg, maxCount, queue, running, results, terminated,
                   terminationChannel, runCheckChannel, available, i,
                   waitResults, taskVars, submitted, started, preWait, late,
                   termFired, sent, seenQueued>>

CheckQueueHead_NoTerminatedGuard ==
    /\ wpc = "cq_head"
    /\ IF Available(maxCount, running) <= 0
       THEN /\ mu' = Free
            /\ wpc' = "select"
            /\ cqEntry' = NoEntry
            /\ UNCHANGED <<available, i>>
       ELSE /\ available' = Available(maxCount, running)
            /\ i' = 0
            /\ wpc' = "cq_loop"
            /\ UNCHANGED <<mu, cqEntry>>
    /\ UNCHANGED <<arg, maxCount, queue, running, results, terminated,
                   terminationChannel, runCheckChannel, waitResults, taskVars,
                   submitted, started, preWait, late, termFired, sent,
                   seenQueued>>

\* checkQueue: the two early returns, else enter the loop
CheckQueueHead ==
    /\ wpc = "cq_head"
    /\ IF terminated \/ Available(maxCount, running) <= 0
       THEN /\ mu' = Free
            /\ wpc' = "select"
            /\ cqEntry' = NoEntry
            /\ UNCHANGED <<available, i>>
       ELSE /\ available' = Available(maxCount, running)
            /\ i' = 0
            /\ wpc' = "cq_loop"
            /\ UNCHANGED <<mu, cqEntry>>
    /\ UNCHANGED <<arg, maxCount, queue, running, results, terminated,
                   terminationChannel, runCheckChannel, waitResults, taskVars,
                   submitted, started, preWait, late, termFired, sent,
                   seenQueued>>

\* checkQueue: one pass of for i := 0; i < available; i++
CheckQueueLoop ==
    /\ wpc = "cq_loop"
    /\ IF i < available /\ Len(queue) # 0
       THEN \* start the head of the queue in its own goroutine
            /\ queue' = Tail(queue)
            /\ running' = running + 1
            /\ tpc' = [tpc EXCEPT ![Head(queue)] = "body"]
            /\ started' = Append(started, Head(queue))
            /\ i' = i + 1
            /\ UNCHANGED <<mu, wpc, available, cqEntry>>
       ELSE \* the queue is empty or the loop is over: unlock and return,
            \* through attemptTermination when nothing is running
            /\ mu' = Free
            /\ wpc' = IF i < available /\ NoneRunning(running)
                      THEN "at_lock" ELSE "select"
            /\ available' = 0
            /\ i' = 0
            /\ cqEntry' = NoEntry
            /\ UNCHANGED <<queue, running, tpc, started>>
    /\ UNCHANGED <<arg, maxCount, results, terminated, terminationChannel,
                   runCheckChannel, waitResults, ret, rpc, rcaller, nextId,
                   submitted, preWait, late, termFired, sent, seenQueued>>

\* attemptTermination: p.mu.Lock()
AttemptTerminationLock ==
    /\ wpc = "at_lock"
    /\ mu = Free
    /\ mu' = Collector
    /\ wpc' = "at_body"
    /\ UNCHANGED <<arg, maxCount, queue, running, results, terminated,
                   terminationChannel, runCheckChannel, available, i,
                   waitResults, taskVars, histVars>>

AttemptTermination_FlagNotSet ==
    /\ wpc = "at_body"
    /\ IF terminated
       THEN UNCHANGED <<terminated, terminationChannel, termFired>>
       ELSE /\ UNCHANGED terminated
            /\ terminationChannel' = TrySend(terminationChannel, TerminationCap)
            /\ termFired' = termFired + 1
    /\ mu' = Free
    /\ wpc' = "select"
    /\ UNCHANGED <<arg, maxCount, queue, running, results, runCheckChannel,
                   available, i, waitResults, taskVars, submitted, started,
                   preWait, late, sent, seenQueued, cqEntry>>

\* attemptTermination: guard, set the flag, non-blocking send, unlock
AttemptTermination ==
    /\ wpc = "at_body"
    /\ IF terminated
       THEN UNCHANGED <<terminated, terminationChannel, termFired>>
       ELSE /\ terminated' = TRUE
            /\ terminationChannel' = TrySend(terminationChannel, TerminationCap)
            /\ termFired' = termFired + 1
    /\ mu' = Free
    /\ wpc' = "select"
    /\ UNCHANGED <<arg, maxCount, queue, running, results, runCheckChannel,
                   available, i, waitResults, taskVars, submitted, started,
                   preWait, late, sent, seenQueued, cqEntry>>

\* Wait: case <-p.runCheckChannel: p.checkQueue()
SelectRunCheck ==
    /\ wpc = "select"
    /\ Len(runCheckChannel) > 0
    /\ runCheckChannel' = Tail(runCheckChannel)
    /\ wpc' = "cq_lock"
    /\ UNCHANGED <<arg, maxCount, queue, running, results, terminated,
                   terminationChannel, mu, available, i, waitResults,
                   taskVars, histVars>>

\* Wait: case r := <-p.results: results = append(results, r)
SelectResult ==
    /\ wpc = "select"
    /\ Len(results) > 0
    /\ results' = Tail(results)
    /\ waitResults' = Collect(waitResults, Head(results))
    /\ UNCHANGED <<arg, maxCount, queue, running, terminated,
                   terminationChannel, runCheckChannel, mu, wpc, available, i,
                   taskVars, histVars>>

\* Wait: case <-p.terminationChannel: return results
SelectTermination ==
    /\ wpc = "select"
    /\ Len(terminationChannel) > 0
    /\ terminationChannel' = Tail(terminationChannel)
    /\ wpc' = "returned"
    /\ UNCHANGED <<arg, maxCount, queue, running, results, terminated,
                   runCheckChannel, mu, available, i, waitResults, taskVars,
                   histVars>>

----------------------------------------------------------------------------
RunStep(t) == RunLock(t) \/ RunPush(t) \/ RunCheck(t)

WorkerStep(t) ==
    \/ BodyReturn(t)
    \/ WorkerSend(t)
    \/ WorkerLock(t)
    \/ WorkerDec(t)
    \/ WorkerCheck(t)

WaitStep ==
    \/ CheckQueueLock
    \/ CheckQueueHead
    \/ CheckQueueLoop
    \/ AttemptTerminationLock
    \/ AttemptTermination
    \/ SelectRunCheck
    \/ SelectResult
    \/ SelectTermination

Next ==
    \/ \E c \in {External} \cup Tasks : RunCall(c)
    \/ \E t \in Tasks : RunStep(t)
    \/ \E t \in Tasks : WorkerStep(t)
    \/ WaitCall
    \/ WaitStep

Spec == Init /\ [][Next]_vars

\* The tasks of the fair specification: the odd ones fail, the even ones
\* succeed.  No guard of the pool reads what a task returned.
FairInit ==
    /\ Init
    /\ ret = [t \in Tasks |-> IF t % 2 = 1 THEN "E1" ELSE NoErr]

\* Go schedules every runnable goroutine: a goroutine that can take its
\* next step takes it.  Calling Run or Wait is the caller's choice.
FairSpec ==
    /\ FairInit
    /\ [][Next]_vars
    /\ WF_vars(WaitStep)
    /\ \A t \in Tasks : WF_vars(RunStep(t)) /\ WF_vars(WorkerStep(t))

----------------------------------------------------------------------------
\* Vocabulary of the properties.

\* The limit a pool built with New(arg) is documented to have.
Limit == IF arg <= 0 THEN 1 ELSE arg

\* Tasks whose body is executing.
Executing == {t \in Tasks : tpc[t] = "body"}

\* Tasks whose worker has delivered its outcome to p.results.
Delivered == {t \in Tasks : tpc[t] \in {"lock", "dec", "check", "done"}}

IsPrefix(s, q) == Len(s) <= Len(q) /\ SubSeq(q, 1, Len(s)) = s

\* Every outcome delivered so far, received by Wait or still in the channel.
Outcomes == {waitResults[k] : k \in 1..Len(waitResults)}
                \cup {results[k] : k \in 1..Len(results)}

\* Number of entries of Wait's list that belong to task t.
Entries(t) == Cardinality({k \in 1..Len(waitResults) : waitResults[k].task = t})

----------------------------------------------------------------------------
\* C1: in every reachable state 0 <= running <= limit, and the number of
\* task bodies executing at the same time is at most limit, where limit is
\* the constructor's argument, or 1 if that argument was <= 0.
C1_CapacityBound ==
    /\ 0 <= running
    /\ running <= Limit
    /\ Cardinality(Executing) <= Limit

\* The pool is at capacity with every admitted body executing and work
\* still pending, and the collector is back in its select.
C1_Witness ==
    /\ running = Limit
    /\ Cardinality(Executing) = Limit
    /\ Len(queue) > 0
    /\ wpc = "select"

\* C2: if every Run call finished before Wait was called and none was made
\* afterwards, the list Wait returns has one outcome per submitted task.
C2_WaitReturnsAll ==
    (wpc = "returned" /\ ~late) => Len(waitResults) = Len(submitted)

\* C3: when Wait returns, every task submitted before Wait was called has
\* been started and its body has returned: none is pending or running.
C3_WaitBlocksUntilDone ==
    wpc = "returned" =>
        \A t \in preWait :
            /\ tpc[t] \in {"check", "done"}
            /\ \A k \in 1..Len(queue) : queue[k] # t

\* Wait has returned after every task was submitted before it was called.
C3_Witness ==
    /\ wpc = "returned"
    /\ preWait = Tasks
    /\ ~late

\* C4: under fair scheduling, once Wait is called it eventually returns,
\* for every limit and every number of submitted tasks; with no task
\* submitted it returns an empty list.
C4_WaitReturns ==
    /\ (wpc # "idle") ~> (wpc = "returned")
    /\ [](wpc = "returned" /\ nextId = 1 => waitResults = <<>>)

\* Wait has returned after every task was started.
C4_Witness ==
    /\ wpc = "returned"
    /\ Len(started) = MaxTasks

\* C5: the tasks started so far are a prefix of the tasks in the order Run
\* appended them to the queue.
C5_FIFO == IsPrefix(started, submitted)

\* With limit 1, a second task was started after the first, while the Run
\* calls were made by different callers.
C5_Witness ==
    /\ maxCount = 1
    /\ Len(started) = 2
    /\ \E t \in Tasks : rcaller[t] # External

\* C6: every delivered outcome has Success = TRUE and Err = nil when the
\* body returned nil, and Success = FALSE and Err = E when it returned E.
C6_OutcomeFidelity ==
    \A o \in Outcomes :
        /\ o.Err = ret[o.task]
        /\ o.Success = (ret[o.task] = NoErr)
        /\ (o.Err = NoErr) = o.Success

\* Wait's list holds the outcome of a failed task and of a successful one.
C6_Witness ==
    /\ \E k \in 1..Len(waitResults) : ~waitResults[k].Success
    /\ \E k \in 1..Len(waitResults) : waitResults[k].Success

\* C7: when Wait returns, its list holds exactly one entry for each task
\* that was admitted and completed, so it is as long as there are such tasks.
C7_ExactlyOnce ==
    wpc = "returned" =>
        /\ \A t \in Delivered : Entries(t) = 1
        /\ Len(waitResults) = Cardinality(Delivered)

\* C8: attemptTermination passes its guard, and so sends on the termination
\* channel, at most once, and terminated never goes back to FALSE.
C8_OneShot ==
    /\ [](termFired <= 1)
    /\ [][terminated => terminated']_vars

\* After termination a further recheck signal made checkQueue run again
\* with an empty queue and nothing running.
C8_Witness ==
    /\ wpc = "cq_head"
    /\ terminated
    /\ termFired = 1
    /\ queue = <<>>
    /\ running = 0

\* C9: the limit is 1 when New is given a value <= 0 and the given value
\* otherwise, in every state; a pool built with a value <= 0 runs its tasks
\* one at a time.
C9_EffectiveLimit ==
    /\ maxCount = Limit
    /\ arg <= 0 => (running <= 1 /\ Cardinality(Executing) <= 1)

\* A pool built with a negative value runs one task while another waits.
C9_Witness ==
    /\ arg < 0
    /\ Cardinality(Executing) = 1
    /\ Len(queue) = 1

\* C10: Run never blocks.  Its recheck signal can always be sent at once,
\* leaving one signal pending and dropping the new one when one was pending
\* already; its push appends the task to the tail of the queue; and every
\* Run call returns (eventually no call is in progress any more).
C10_RunNeverBlocks ==
    /\ [](\A t \in Tasks : rpc[t] = "check" => ENABLED RunCheck(t))
    /\ [][\A t \in Tasks :
            /\ (rpc[t] = "push" /\ rpc'[t] = "check")
                   => queue' = Append(queue, t)
            /\ (rpc[t] = "check" /\ rpc'[t] = "done")
                   => /\ Len(runCheckChannel') = 1
                      /\ Len(runCheckChannel) = 1
                             => runCheckChannel' = runCheckChannel]_vars
    /\ <>[](\A t \in Tasks : rpc[t] \in {"idle", "done"})

\* Wait has not been called, every Run call has returned, and the second
\* one found a recheck signal pending.
C10_Witness ==
    /\ wpc = "idle"
    /\ \A t \in Tasks : rpc[t] = "done"
    /\ Len(queue) = MaxTasks
    /\ Len(runCheckChannel) = 1

\* C11: the list Wait builds is in completion order: its outcomes are, in
\* order, those of the first tasks whose workers sent on p.results.
C11_CompletionOrder ==
    /\ Len(waitResults) <= Len(sent)
    /\ \A k \in 1..Len(waitResults) : waitResults[k].task = sent[k]

\* Wait's list holds two outcomes in the reverse of the submission order.
C11_Witness ==
    /\ submitted = <<1, 2>>
    /\ Len(waitResults) = 2
    /\ waitResults[1].task = 2

\* C12: a task that returns an error is run once, counts in running and
\* leaves the pool unterminated exactly as a succeeding task does, and every
\* task that was queued when it failed has completed when Wait returns.
C12_ErrorDoesNotAbort ==
    /\ \A j, k \in 1..Len(started) : started[j] = started[k] => j = k
    /\ running = Cardinality({t \in Tasks :
                                 tpc[t] \in {"body", "send", "lock", "dec"}})
    /\ \A t \in Tasks :
           (ret[t] # NoErr /\ tpc[t] \in {"send", "lock", "dec"})
               => (~terminated /\ wpc # "returned")
    /\ wpc = "returned" => seenQueued = {}

\* A task has failed and completed, and a task that was queued when it
\* failed is now running.
C12_Witness ==
    \E t, u \in Tasks :
        /\ ret[t] # NoErr
        /\ tpc[t] \in {"check", "done"}
        /\ u \in seenQueued
        /\ tpc[u] = "body"

\* C13: a task handed to Run from inside the body of a running task is
\* admitted and completes before Wait returns: from the call of Run until
\* that task has completed, termination is neither decided nor declared.
C13_RunFromInsideTask ==
    \A t \in Tasks :
        (rcaller[t] # External /\ rpc[t] # "idle"
                               /\ tpc[t] \notin {"check", "done"})
            => /\ ~terminated
               /\ wpc \notin {"at_lock", "at_body", "returned"}

\* Wait has returned and a task submitted from inside a body has completed.
C13_Witness ==
    /\ wpc = "returned"
    /\ \E t \in Tasks : rcaller[t] # External /\ tpc[t] = "done"

\* C14: at the step that sets terminated to TRUE the queue is empty and
\* nothing is running, whatever Run calls other contexts make meanwhile.
C14_AtomicTermination ==
    [][(~terminated /\ terminated') => (queue = <<>> /\ running = 0)]_vars

\* C15: once terminated is TRUE, a checkQueue returns at once, leaving the
\* queue and running as they are, and no step starts a task or changes
\* running, also when Run appends to the queue afterwards.
C15_TerminatedIsTerminal ==
    [][terminated =>
          /\ terminated'
          /\ started' = started
          /\ running' = running
          /\ \A t \in Tasks : tpc[t] = "none" => tpc'[t] = "none"
          /\ (wpc = "cq_head" /\ wpc' # wpc)
                 => (wpc' = "select" /\ queue' = queue)]_vars

\* checkQueue runs after termination while a task is queued.
C15_Witness ==
    /\ terminated
    /\ wpc = "cq_head"
    /\ Len(queue) > 0

\* C16: while Wait is active and the pool is not terminated, whenever a
\* task is at the head of the queue and running < limit, the collector
\* eventually starts that task (under fair scheduling).
C16_NoLostRecheck ==
    \A t \in Tasks :
        (/\ wpc \notin {"idle", "returned"}
         /\ ~terminated
         /\ Len(queue) > 0
         /\ Head(queue) = t
         /\ running < maxCount) ~> (tpc[t] # "none")

Min(a, b) == IF a <= b THEN a ELSE b

\* Number of tasks the checkQueue in progress has started.
StartedByCheck == Len(started) - cqEntry.started

\* C17: a checkQueue that took the lock with the pool not terminated,
\* running = r and q tasks queued has, when it returns, started
\* min(limit - r, q) tasks if r < limit and none otherwise: the first ones
\* of the queue, in order, with running raised by that number.
C17_AdmissionCount ==
    [][(wpc \in {"cq_head", "cq_loop"} /\ wpc' \in {"select", "at_lock"}) =>
          /\ StartedByCheck =
                 IF terminated \/ cqEntry.running >= Limit
                 THEN 0
                 ELSE Min(Limit - cqEntry.running, Len(cqEntry.queue))
          /\ running = cqEntry.running + StartedByCheck
          /\ queue = SubSeq(cqEntry.queue, StartedByCheck + 1,
                            Len(cqEntry.queue))
          /\ SubSeq(started, cqEntry.started + 1, Len(started))
                 = SubSeq(cqEntry.queue, 1, StartedByCheck)]_vars

\* A checkQueue has used up its capacity and leaves a task queued.
C17_Witness ==
    /\ wpc = "cq_loop"
    /\ i > 0
    /\ i = available
    /\ Len(queue) > 0

\* C18: the lock is held only inside the short critical sections: by a
\* worker only to decrement running (never in its body or at its send on
\* p.results), by Run only to append, by the collector only inside
\* checkQueue and attemptTermination (never in its select); and the holder
\* can always go on to its Unlock, so nobody waits for the lock forever.
C18_LockDiscipline ==
    /\ mu = Collector =>
           (wpc \in {"cq_head", "cq_loop", "at_body"} /\ ENABLED WaitStep)
    /\ \A t \in Tasks :
           /\ mu = Worker(t) => (tpc[t] = "dec" /\ ENABLED WorkerDec(t))
           /\ mu = Runner(t) => (rpc[t] = "push" /\ ENABLED RunPush(t))
    /\ (mu # Free /\ mu # Collector) =>
           \E t \in Tasks : mu = Worker(t) \/ mu = Runner(t)

\* The collector holds the lock while a worker is blocked at its send on
\* the full results channel.
C18_Witness ==
    /\ mu = Collector
    /\ Len(results) = ResultsCap
    /\ \E t \in Tasks : tpc[t] = "send"

\* C19: only the goroutine in Wait admits tasks.  Every step that takes a
\* task off the queue, starts one or raises running is a pass of
\* checkQueue's loop made by the collector under the lock, so before Wait is
\* called no task has started, however many were submitted.
C19_OnlyWaitAdmits ==
    /\ [](wpc = "idle" =>
             /\ started = <<>>
             /\ running = 0
             /\ \A t \in Tasks : tpc[t] = "none")
    /\ [][(\/ started' # started
           \/ Len(queue') < Len(queue)
           \/ running' > running
           \/ \E t \in Tasks : tpc[t] = "none" /\ tpc'[t] # "none")
              => /\ wpc = "cq_loop"
                 /\ mu = Collector
                 /\ i' = i + 1]_vars

\* Wait has not been called, every task is queued and none has started.
C19_Witness ==
    /\ wpc = "idle"
    /\ Len(queue) = MaxTasks
    /\ \A t \in Tasks : tpc[t] = "none" /\ rpc[t] = "done"

\* C20: the tasks admitted so far are as many as the outcomes in Wait's
\* list, plus those buffered in p.results, plus the workers that have not
\* sent theirs yet; and once Wait has returned no worker is still counted
\* in running or about to send.
C20_OutcomeConservation ==
    /\ Len(started) = Len(waitResults) + Len(results)
                        + Cardinality({t \in Tasks :
                                          tpc[t] \in {"body", "send"}})
    /\ wpc = "returned" =>
           /\ running = 0
           /\ \A t \in Tasks : tpc[t] \notin {"body", "send", "lock", "dec"}

\* Wait has returned after every task was admitted, with one outcome still
\* buffered in the results channel.
C20_Witness ==
    /\ wpc = "returned"
    /\ Len(started) = MaxTasks
    /\ Len(results) = 1

====
